---- MODULE Spec2Model ----
(***************************************************************************)
(* Model of src/denoise.py: AudioDeNoise.deNoise (block-wise wavelet       *)
(* de-noising), mad, and the two noise-profile entry points.               *)
(*                                                                         *)
(* Sample and coefficient values are fixed-point integers (three decimal   *)
(* digits); the db4 filter taps are the pywt taps rounded to that          *)
(* precision.  NaN is the IEEE not-a-number the numpy calls can produce.   *)
(***************************************************************************)
EXTENDS Integers, Sequences, FiniteSets, TLC

VARIABLES
    pc,            \* position inside deNoise
    inputFile,     \* the file named by self.__inputFile: [rate, frames, channels, pattern]
    fault,         \* the I/O failure the environment injects: [kind, at]
    blockSize,     \* int(rate * info.duration * 0.10)
    remaining,     \* frames the block generator still has to deliver
    blockNo,       \* number of blocks the generator has yielded (counted up to
                   \* the last block a fault can hit)
    inOpen,        \* the generator's input SoundFile is open
    ofOpen,        \* the output SoundFile `of` is open
    block,         \* current block
    coefficients,  \* current coefficient list [cA2, cD2, cD1]
    sigma,         \* mad of the finest detail array
    thresh,        \* universal threshold of the current block
    clean,         \* reconstructed block
    readTotal,     \* frames delivered by the generator so far
    written,       \* frames written to the output file so far
    error,         \* kind of the exception that left deNoise, "none" if none
    files,         \* file system seen by the noise-profile entry points
    result,        \* outcome of the last noise-profile call
    calls          \* number of noise-profile calls made

vars == <<pc, inputFile, fault, blockSize, remaining, blockNo, inOpen, ofOpen,
          block, coefficients, sigma, thresh, clean, readTotal, written, error,
          files, result, calls>>

deNoiseVars == <<pc, inputFile, fault, blockSize, remaining, blockNo, inOpen, ofOpen,
                 block, coefficients, sigma, thresh, clean, readTotal, written, error>>

profileVars == <<files, result, calls>>

----------------------------------------------------------------------------
(* Bounds of the model *)

MaxFrames == 45
MaxChannels == 2
MaxPattern == 2
MaxFaultBlock == 2
MaxCalls == 2

Rates == {8000, 16000}

----------------------------------------------------------------------------
(* Fixed-point arithmetic with NaN *)

NaN == -(2 * 1000 * 1000 * 1000)

IsNaN(v) == v = NaN

Abs(v) == IF v < 0 THEN -v ELSE v

Sign(v) == IF v < 0 THEN -1 ELSE IF v > 0 THEN 1 ELSE 0

\* product of two fixed-point values, rounded to the nearest unit
FixDiv(v) == IF v >= 0 THEN (v + 500) \div 1000 ELSE -((-v + 500) \div 1000)

\* the array s as an evaluated tuple
Array(s) == s \o <<>>

RECURSIVE SumTo(_, _)
SumTo(s, n) == IF n = 0 THEN 0 ELSE s[n] + SumTo(s, n - 1)

SumSeq(s) == SumTo(s, Len(s))

HasNaN(s) == \E i \in 1..Len(s) : IsNaN(s[i])

\* a floating point sum: NaN as soon as one term is NaN
NaNSum(s) == IF HasNaN(s) THEN NaN ELSE SumSeq(s)

NaNMul(a, b) == IF IsNaN(a) \/ IsNaN(b) THEN NaN ELSE a * b

NaNFix(v) == IF IsNaN(v) THEN NaN ELSE FixDiv(v)

----------------------------------------------------------------------------
(* pywt: Daubechies-4 filter bank, periodization mode *)

dec_lo == <<-11, 33, 31, -187, -28, 631, 715, 230>>

dec_hi == <<-230, 715, -631, -28, 187, 31, -33, -11>>

FilterLen == Len(dec_lo)

\* number of coefficients of one periodization-mode DWT level
dwt_coeff_len(n) == (n + 1) \div 2

\* sample k (0-based) of the block padded to even length and extended periodically
Periodic(x, k) ==
    LET n == Len(x)
        M == n + (n % 2)
        i == k % M
    IN  IF i < n THEN x[i + 1] ELSE x[n]

\* one filter of one DWT level along a 1-D array of length >= 1
DownCoef(x, filt) ==
    Array([o \in 1..dwt_coeff_len(Len(x)) |->
        NaNFix(NaNSum(Array([j \in 1..FilterLen |->
            NaNMul(filt[j], Periodic(x, (FilterLen \div 2) + 2 * (o - 1) - (j - 1)))])))])

\* sample m (0-based) of the inverse DWT of (a, d), Len(a) = Len(d) >= 1
UpCoef(a, d, m) ==
    LET M == 2 * Len(a)
        Term(j) ==
            IF (m + (j - 1)) % 2 = 0
            THEN LET o == (((m + (j - 1) - (FilterLen \div 2)) % M) \div 2) + 1
                 IN  NaNSum(<<NaNMul(dec_lo[j], a[o]), NaNMul(dec_hi[j], d[o])>>)
            ELSE 0
    IN  NaNFix(NaNSum(Array([j \in 1..FilterLen |-> Term(j)])))

idwt1(a, d) == Array([m \in 1..(2 * Len(a)) |-> UpCoef(a, d, m - 1)])

\* wavedec(x, 'db4', mode='per', level=2) along a 1-D array: [cA2, cD2, cD1]
wavedec1(x) ==
    LET a1 == DownCoef(x, dec_lo)
        d1 == DownCoef(x, dec_hi)
    IN  <<DownCoef(a1, dec_lo), DownCoef(a1, dec_hi), d1>>

\* one step of waverec: trim the approximation by one if it is one longer
RecStep(a, d) ==
    idwt1(IF Len(a) = Len(d) + 1 THEN SubSeq(a, 1, Len(d)) ELSE a, d)

waverec1(c) == RecStep(RecStep(c[1], c[2]), c[3])

----------------------------------------------------------------------------
(* Arrays: a mono block is 1-D (frames), any other block is 2-D             *)
(* (frames x channels); pywt works along the last axis (axis=-1)           *)

Is2D(ch) == ch /= 1

wavedec(b, ch) ==
    IF Is2D(ch)
    THEN LET rows == Array([r \in 1..Len(b) |-> wavedec1(b[r])])
         IN  Array([k \in 1..3 |-> Array([r \in 1..Len(b) |-> rows[r][k]])])
    ELSE wavedec1(b)

waverec(c, ch) ==
    IF Is2D(ch)
    THEN Array([r \in 1..Len(c[1]) |-> waverec1(<<c[1][r], c[2][r], c[3][r]>>)])
    ELSE waverec1(c)

\* the rows of a 2-D array one after the other (all rows have the same length)
Flatten(rows) ==
    IF Len(rows) = 0 THEN <<>>
    ELSE LET w == Len(rows[1])
         IN  Array([i \in 1..(Len(rows) * w) |-> rows[((i - 1) \div w) + 1][((i - 1) % w) + 1]])

\* np.ma.array(arr).compressed(): the values as one 1-D array
compressed(arr, ch) == IF Is2D(ch) THEN Flatten(arr) ELSE arr

\* k-th smallest value (1-based) of a non-empty sequence
KthSmallest(s, k) ==
    CHOOSE v \in {s[i] : i \in 1..Len(s)} :
        /\ Cardinality({i \in 1..Len(s) : s[i] < v}) < k
        /\ Cardinality({i \in 1..Len(s) : s[i] <= v}) >= k

\* np.median: NaN for an empty array, mean of the two middle values if even
median(s) ==
    IF Len(s) = 0 \/ HasNaN(s) THEN NaN
    ELSE IF Len(s) % 2 = 1 THEN KthSmallest(s, (Len(s) + 1) \div 2)
    ELSE (KthSmallest(s, Len(s) \div 2) + KthSmallest(s, Len(s) \div 2 + 1)) \div 2

mad(arr) ==
    LET med == median(arr)
    IN  median(Array([i \in 1..Len(arr) |-> IF IsNaN(med) THEN NaN ELSE Abs(arr[i] - med)]))

\* np.sqrt(2 * np.log(n)) in fixed point; log(0) = -inf gives NaN
SqrtTwoLogTable ==
    <<0, 1177, 1482, 1665, 1794, 1893, 1973, 2039, 2096, 2146,
      2190, 2229, 2265, 2297, 2327, 2355, 2380, 2404, 2427, 2448>>

SqrtTwoLog(n) == IF n = 0 THEN NaN ELSE SqrtTwoLogTable[n]

UniversalThreshold(sig, n) == NaNFix(NaNMul(sig, SqrtTwoLog(n)))

\* pywt.threshold(x, value, mode='soft') on one element:
\* x * clip(1 - value / |x|, min=0)
soft(x, value) ==
    IF IsNaN(x) \/ IsNaN(value) THEN NaN
    ELSE IF x = 0 THEN (IF value > 0 THEN 0 ELSE NaN)
    ELSE IF Abs(x) <= value THEN 0
    ELSE Sign(x) * (Abs(x) - value)

threshold(arr, value, ch) ==
    IF Is2D(ch)
    THEN Array([r \in 1..Len(arr) |-> Array([k \in 1..Len(arr[r]) |-> soft(arr[r][k], value)])])
    ELSE Array([k \in 1..Len(arr) |-> soft(arr[k], value)])

\* a slip of the slice: the approximation array is thresholded as well
ThresholdAll(c, value, ch) ==
    <<threshold(c[1], value, ch), threshold(c[2], value, ch), threshold(c[3], value, ch)>>

\* coefficients[1:] = (pywt.threshold(i, ...) for i in coefficients[1:])
ThresholdDetails(c, value, ch) ==
    <<c[1], threshold(c[2], value, ch), threshold(c[3], value, ch)>>

----------------------------------------------------------------------------
(* The input file and the environment of deNoise *)

\* sample of frame i (0-based), channel c (0-based) of the input; pattern 0 is silence
Sample(p, i, c) ==
    IF p = 0 THEN 0
    ELSE ((((i + 1) * (7 * p + 3) + i * i * p + c * (22 + 7 * p)) % 41) - 20) * 25

\* frames [from, from + n) of the input as soundfile delivers them (always_2d=False)
ReadFrames(f, from, n) ==
    IF Is2D(f.channels)
    THEN Array([k \in 1..n |->
             Array([c \in 1..f.channels |-> Sample(f.pattern, from + k - 1, c - 1)])])
    ELSE Array([k \in 1..n |-> Sample(f.pattern, from + k - 1, 0)])

InputFiles ==
    [rate : Rates, frames : 0..MaxFrames, channels : 1..MaxChannels, pattern : 0..MaxPattern]

\* libsndfile failures the environment can inject: while reading the header
\* ("info"), creating the output ("create"), reading or writing the at-th block
Faults ==
    {[kind |-> "none", at |-> 0], [kind |-> "info", at |-> 0], [kind |-> "create", at |-> 0]}
    \cup [kind : {"read", "write"}, at : 1..MaxFaultBlock]

Min(a, b) == IF a < b THEN a ELSE b

\* round() of num / den for num >= 0, den > 0 (ties go to the even integer)
PyRound(num, den) ==
    LET q == num \div den
        r == 2 * (num % den)
    IN  IF r < den THEN q
        ELSE IF r > den THEN q + 1
        ELSE IF q % 2 = 0 THEN q ELSE q + 1

\* the block size had round() been used instead of int()
BlockSizeRounded(rate, frames) == PyRound(rate * frames, rate * 10)

\* int(rate * info.duration * 0.10) with info.duration = frames / rate; the float
\* product is exact for the rates and lengths of the model
BlockSize(rate, frames) == (rate * frames) \div (rate * 10)

\* channel count of the array waverec returns for a block of ch channels
CleanWidth(ch) == Len(waverec1(wavedec1([k \in 1..ch |-> 0])))

NoCoefficients == <<<<>>, <<>>, <<>>>>

\* no noise-profile call has been made
NoCall == [call |-> "none", noiseFile |-> "", outputFile |-> "", error |-> "none",
           cause |-> "none", before |-> <<>>]

----------------------------------------------------------------------------
(* deNoise (src/denoise.py lines 61-92) *)

Init ==
    /\ pc = "start"
    /\ inputFile \in InputFiles
    /\ fault \in Faults
    /\ blockSize = 0
    /\ remaining = 0
    /\ blockNo = 0
    /\ inOpen = FALSE
    /\ ofOpen = FALSE
    /\ block = <<>>
    /\ coefficients = NoCoefficients
    /\ sigma = 0
    /\ thresh = 0
    /\ clean = <<>>
    /\ readTotal = 0
    /\ written = 0
    /\ error = "none"
    /\ files = <<>>
    /\ result = NoCall
    /\ calls = 0

\* an exception leaves deNoise: the `with` statement closes `of`
Raise(kind) ==
    /\ pc' = "failed"
    /\ error' = kind
    /\ ofOpen' = FALSE

\* the loop body raised while the block generator is suspended at its yield: the
\* generator is never closed explicitly, so the input file it holds is closed
\* only when the interpreter finalizes the abandoned generator, which may have
\* happened (reference counting) or not (deferred collection) when deNoise raises
AbandonGenerator == inOpen' \in {inOpen, FALSE}

\* lines 74-78: read the header, create the output, build the block generator
Start ==
    /\ pc = "start"
    /\ IF fault.kind \in {"info", "create"}
       THEN /\ Raise("LibsndfileError")
            /\ UNCHANGED <<blockSize, remaining>>
       ELSE /\ pc' = "next"
            /\ ofOpen' = TRUE
            /\ blockSize' = BlockSize(inputFile.rate, inputFile.frames)
            /\ remaining' = inputFile.frames
            /\ error' = error
    /\ UNCHANGED <<inputFile, fault, blockNo, inOpen, block, coefficients, sigma,
                   thresh, clean, readTotal, written>>
    /\ UNCHANGED profileVars

\* line 78: the for statement asks soundfile.blocks for the next block
NextBlock ==
    /\ pc = "next"
    /\ IF remaining > 0
       THEN IF fault.kind = "read" /\ fault.at = blockNo + 1
            THEN \* the read fails inside the generator, whose `with` closes the input
                 /\ Raise("LibsndfileError")
                 /\ inOpen' = FALSE
                 /\ UNCHANGED <<remaining, blockNo, block, readTotal>>
            ELSE LET toread == Min(blockSize, remaining)
                 IN  /\ block' = ReadFrames(inputFile, readTotal, toread)
                     /\ remaining' = remaining - toread
                     /\ readTotal' = readTotal + toread
                     /\ blockNo' = IF blockNo > MaxFaultBlock THEN blockNo ELSE blockNo + 1
                     /\ inOpen' = TRUE
                     /\ pc' = "wavedec"
                     /\ UNCHANGED <<ofOpen, error>>
       ELSE \* input exhausted: the generator returns, both `with` blocks exit
            /\ pc' = "done"
            /\ inOpen' = FALSE
            /\ ofOpen' = FALSE
            /\ UNCHANGED <<remaining, blockNo, block, readTotal, error>>
    /\ UNCHANGED <<inputFile, fault, blockSize, coefficients, sigma, thresh, clean, written>>
    /\ UNCHANGED profileVars

\* line 79: pywt.wavedec; pywt rejects an empty 1-D array with a ValueError
Wavedec ==
    /\ pc = "wavedec"
    /\ IF ~Is2D(inputFile.channels) /\ Len(block) = 0
       THEN /\ Raise("ValueError")
            /\ AbandonGenerator
            /\ UNCHANGED coefficients
       ELSE /\ coefficients' = wavedec(block, inputFile.channels)
            /\ pc' = "estimate"
            /\ UNCHANGED <<ofOpen, inOpen, error>>
    /\ UNCHANGED <<inputFile, fault, blockSize, remaining, blockNo, block,
                   sigma, thresh, clean, readTotal, written>>
    /\ UNCHANGED profileVars

\* lines 82-85: sigma and the universal threshold
Estimate ==
    /\ pc = "estimate"
    /\ LET s == mad(compressed(coefficients[3], inputFile.channels))
       IN  /\ sigma' = s
           /\ thresh' = UniversalThreshold(s, Len(block))
    /\ pc' = "threshold"
    /\ UNCHANGED <<inputFile, fault, blockSize, remaining, blockNo, inOpen, ofOpen,
                   block, coefficients, clean, readTotal, written, error>>
    /\ UNCHANGED profileVars

\* line 88: soft-threshold the detail arrays
Threshold ==
    /\ pc = "threshold"
    /\ coefficients' = ThresholdDetails(coefficients, thresh, inputFile.channels)
    /\ pc' = "waverec"
    /\ UNCHANGED <<inputFile, fault, blockSize, remaining, blockNo, inOpen, ofOpen,
                   block, sigma, thresh, clean, readTotal, written, error>>
    /\ UNCHANGED profileVars

\* line 91: pywt.waverec
Waverec ==
    /\ pc = "waverec"
    /\ clean' = waverec(coefficients, inputFile.channels)
    /\ pc' = "write"
    /\ UNCHANGED <<inputFile, fault, blockSize, remaining, blockNo, inOpen, ofOpen,
                   block, coefficients, sigma, thresh, readTotal, written, error>>
    /\ UNCHANGED profileVars

\* line 92: of.write(clean); soundfile rejects an array whose second dimension
\* is not the channel count with a ValueError
Write ==
    /\ pc = "write"
    /\ IF fault.kind = "write" /\ fault.at = blockNo
       THEN /\ Raise("LibsndfileError")
            /\ AbandonGenerator
            /\ UNCHANGED written
       ELSE IF Is2D(inputFile.channels) /\ CleanWidth(inputFile.channels) /= inputFile.channels
       THEN /\ Raise("ValueError")
            /\ AbandonGenerator
            /\ UNCHANGED written
       ELSE /\ written' = written + Len(clean)
            /\ pc' = "next"
            /\ UNCHANGED <<ofOpen, inOpen, error>>
    /\ UNCHANGED <<inputFile, fault, blockSize, remaining, blockNo, block,
                   coefficients, sigma, thresh, clean, readTotal>>
    /\ UNCHANGED profileVars

deNoise == Start \/ NextBlock \/ Wavedec \/ Estimate \/ Threshold \/ Waverec \/ Write

Next == deNoise

Spec == Init /\ [][Next]_vars

PcValues == {"start", "next", "wavedec", "estimate", "threshold", "waverec", "write",
             "done", "failed"}

\* the interpreter executes the next statement of a call that has not ended
Advance ==
    /\ pc \notin {"done", "failed"}
    /\ pc' \in PcValues
    /\ pc' /= pc

\* deNoise is sequential code that is never suspended from outside: as long as it
\* has not returned or raised, its next statement is executed (every action of
\* Next changes pc, and one is enabled in every state that is not final)
FairSpec == Spec /\ WF_pc(Advance)

----------------------------------------------------------------------------
(* Noise profile entry points (src/denoise.py lines 94-150) *)

Paths == {"noise.wav", "out.wav"}

\* a file that does not exist; whether its path can be created is `writable`
Absent(w) == [exists |-> FALSE, readable |-> FALSE, writable |-> w, data |-> 0, rate |-> 0]

\* an audio file holding recording number d, generation 0 (as recorded)
FileStates ==
    {Absent(w) : w \in BOOLEAN}
    \cup [exists : {TRUE}, readable : BOOLEAN, writable : BOOLEAN, data : {0}, rate : Rates]

\* NoiseProfiler(data).getNoiseDataPredicted(): an opaque waveform derived from data
getNoiseDataPredicted(data) == data + 1

\* soundfile.write(path, data, rate) on a path that can be written
Written(fs, path, data, rate) ==
    [fs EXCEPT ![path] = [exists |-> TRUE, readable |-> TRUE, writable |-> TRUE,
                          data |-> data, rate |-> rate]]

Outcome(fs, err, cause) == [files |-> fs, error |-> err, cause |-> cause]

\* generateNoiseProfileTo(noiseFile, outputFile), lines 135-150
generateNoiseProfileToLegacyTarget(fs, noiseFile, outputFile) ==
    IF ~fs[noiseFile].exists THEN Outcome(fs, "FileNotFoundError", "none")
    ELSE IF ~fs[noiseFile].readable THEN Outcome(fs, "RuntimeError", "LibsndfileError")
    ELSE IF ~fs[noiseFile].writable THEN Outcome(fs, "RuntimeError", "LibsndfileError")
    ELSE Outcome(Written(fs, noiseFile, getNoiseDataPredicted(fs[noiseFile].data),
                         fs[noiseFile].rate), "none", "none")

generateNoiseProfileToUnchecked(fs, noiseFile, outputFile) ==
    IF ~fs[noiseFile].exists \/ ~fs[noiseFile].readable
    THEN Outcome(fs, "LibsndfileError", "none")
    ELSE IF ~fs[outputFile].writable THEN Outcome(fs, "RuntimeError", "LibsndfileError")
    ELSE Outcome(Written(fs, outputFile, getNoiseDataPredicted(fs[noiseFile].data),
                         fs[noiseFile].rate), "none", "none")

generateNoiseProfileTo(fs, noiseFile, outputFile) ==
    IF ~fs[noiseFile].exists THEN Outcome(fs, "FileNotFoundError", "none")
    ELSE IF ~fs[noiseFile].readable THEN Outcome(fs, "RuntimeError", "LibsndfileError")
    ELSE IF ~fs[outputFile].writable THEN Outcome(fs, "RuntimeError", "LibsndfileError")
    ELSE Outcome(Written(fs, outputFile, getNoiseDataPredicted(fs[noiseFile].data),
                         fs[noiseFile].rate), "none", "none")

\* generateNoiseProfile(noiseFile), lines 107-120: writes over the source, and a
\* failing write is not wrapped
generateNoiseProfile(fs, noiseFile) ==
    IF ~fs[noiseFile].exists THEN Outcome(fs, "FileNotFoundError", "none")
    ELSE IF ~fs[noiseFile].readable THEN Outcome(fs, "RuntimeError", "LibsndfileError")
    ELSE IF ~fs[noiseFile].writable THEN Outcome(fs, "LibsndfileError", "none")
    ELSE Outcome(Written(fs, noiseFile, getNoiseDataPredicted(fs[noiseFile].data),
                         fs[noiseFile].rate), "none", "none")

InitProfile ==
    /\ pc = "idle"
    /\ inputFile = [rate |-> 8000, frames |-> 0, channels |-> 1, pattern |-> 0]
    /\ fault = [kind |-> "none", at |-> 0]
    /\ blockSize = 0
    /\ remaining = 0
    /\ blockNo = 0
    /\ inOpen = FALSE
    /\ ofOpen = FALSE
    /\ block = <<>>
    /\ coefficients = NoCoefficients
    /\ sigma = 0
    /\ thresh = 0
    /\ clean = <<>>
    /\ readTotal = 0
    /\ written = 0
    /\ error = "none"
    /\ files \in [Paths -> FileStates]
    /\ result = NoCall
    /\ calls = 0

CallGenerateNoiseProfileTo ==
    /\ calls < MaxCalls
    /\ \E noiseFile \in Paths, outputFile \in Paths :
          LET out == generateNoiseProfileTo(files, noiseFile, outputFile)
          IN  /\ files' = out.files
              /\ result' = [call |-> "generateNoiseProfileTo", noiseFile |-> noiseFile,
                            outputFile |-> outputFile, error |-> out.error,
                            cause |-> out.cause, before |-> files]
    /\ calls' = calls + 1
    /\ UNCHANGED deNoiseVars

CallGenerateNoiseProfile ==
    /\ calls < MaxCalls
    /\ \E noiseFile \in Paths :
          LET out == generateNoiseProfile(files, noiseFile)
          IN  /\ files' = out.files
              /\ result' = [call |-> "generateNoiseProfile", noiseFile |-> noiseFile,
                            outputFile |-> noiseFile, error |-> out.error,
                            cause |-> out.cause, before |-> files]
    /\ calls' = calls + 1
    /\ UNCHANGED deNoiseVars

NextProfile == CallGenerateNoiseProfileTo \/ CallGenerateNoiseProfile

ProfileSpec == InitProfile /\ [][NextProfile]_vars

----------------------------------------------------------------------------
(* Properties *)

\* deNoise has computed the block size
Started ==
    \/ pc \in {"next", "wavedec", "estimate", "threshold", "waverec", "write", "done"}
    \/ pc = "failed" /\ fault.kind \notin {"info", "create"}

Terminated == pc \in {"done", "failed"}

Channels == inputFile.channels

\* the coefficient list pywt.wavedec returns for the current block
Forward == wavedec(block, Channels)

\* the values of the detail arrays of a coefficient list, as one array
DetailValues(c) == compressed(c[2], Channels) \o compressed(c[3], Channels)

\* column c of a frames x channels array
Column(arr, c) == Array([r \in 1..Len(arr) |-> arr[r][c]])

\* the de-noising of one channel along the time axis
DeNoise1D(x) ==
    IF Len(x) = 0 THEN <<>>
    ELSE LET c0 == wavedec1(x)
             t  == UniversalThreshold(mad(c0[3]), Len(x))
         IN  waverec1(<<c0[1], threshold(c0[2], t, 1), threshold(c0[3], t, 1)>>)

\* C1: deNoise writes exactly as many samples as it reads: every block of n
\* samples is reconstructed to n samples, and a completed run has written N.
C1_LengthPreserved ==
    /\ pc = "write" => Len(clean) = Len(block)
    /\ pc = "done" => written = inputFile.frames

\* C2 (as stated): the block size is round(rate * duration * 0.10).
C2_BlockSizeRounds ==
    Started => blockSize = PyRound(inputFile.rate * inputFile.frames, inputFile.rate * 10)

\* C2 (amended): the block size is rate * duration * 0.10 truncated to an integer,
\* the generator delivers consecutive blocks of that size with only the last one
\* possibly shorter, and 16000 Hz, 1.6 s gives 2560 and exactly 10 full blocks.
C2_BlockSizeTruncates ==
    /\ Started =>
          /\ blockSize * (inputFile.rate * 10) <= inputFile.rate * inputFile.frames
          /\ inputFile.rate * inputFile.frames < (blockSize + 1) * (inputFile.rate * 10)
    /\ pc = "wavedec" =>
          /\ Len(block) = blockSize \/ (remaining = 0 /\ Len(block) < blockSize)
          /\ block = ReadFrames(inputFile, inputFile.frames - remaining - Len(block), Len(block))
    /\ BlockSize(16000, 25600) = 2560
    /\ 25600 = 10 * BlockSize(16000, 25600)

C2_Witness ==
    /\ pc = "wavedec"
    /\ blockSize >= 2
    /\ remaining = 0
    /\ Len(block) > 0
    /\ Len(block) < blockSize
    /\ blockSize /= PyRound(inputFile.rate * inputFile.frames, inputFile.rate * 10)

\* C3: deNoise terminates for every finite input, and an input whose computed
\* block size is not positive ends as a ValueError.
C3_Terminates ==
    /\ <>Terminated
    /\ [](Terminated /\ Started /\ blockSize < 1 => pc = "failed" /\ error = "ValueError")

\* C4: for a block of length 0 or 1 sigma is 0, the threshold is exactly 0 and
\* every detail coefficient passes through unshrunk; an empty input does not fail.
C4_DegenerateBlock ==
    /\ pc \in {"waverec", "write"} /\ Len(block) <= 1 =>
          /\ sigma = 0
          /\ thresh = 0
          /\ coefficients = Forward
    /\ Terminated /\ inputFile.frames = 0 /\ fault.kind \notin {"info", "create"} => pc = "done"

\* C5: the shrinkage is soft thresholding, sign(x) * max(|x| - t, 0) for every
\* detail element x (so t = 0 changes nothing), and the threshold is never negative.
C5_SoftThreshold ==
    /\ pc \in {"waverec", "write"} =>
          LET x == DetailValues(Forward)
              y == DetailValues(coefficients)
          IN  /\ ~IsNaN(thresh) /\ thresh >= 0
              /\ Len(y) = Len(x)
              /\ \A i \in 1..Len(x) :
                    y[i] = Sign(x[i]) * (IF Abs(x[i]) > thresh THEN Abs(x[i]) - thresh ELSE 0)
    /\ threshold(<<-5, -2, 0, 2, 5>>, 2, 1) = <<-3, 0, 0, 0, 3>>

\* C6: a multi-channel block is transformed along the frame axis, each channel on
\* its own: the finest detail array has half the frames (rounded up), and channel
\* c of the output is the de-noising of channel c of the block (compared on blocks
\* of even length, which the inverse transform returns at their own length).
C6_PerChannel ==
    /\ pc = "estimate" /\ Is2D(Channels) =>
          Len(coefficients[3]) = dwt_coeff_len(Len(block))
    /\ pc = "write" /\ Is2D(Channels) /\ Len(block) % 2 = 0 =>
          \A c \in 1..Channels : Column(clean, c) = DeNoise1D(Column(block, c))

C10_BlockLocal ==
    /\ pc \in {"threshold", "waverec", "write"} =>
          /\ sigma = mad(compressed(Forward[3], Channels))
          /\ thresh = UniversalThreshold(sigma, Len(block))
    /\ pc \in {"waverec", "write"} =>
          /\ coefficients[1] = Forward[1]
          /\ coefficients[2] = threshold(Forward[2], thresh, Channels)
          /\ coefficients[3] = threshold(Forward[3], thresh, Channels)
    /\ pc = "write" =>
          LET t == UniversalThreshold(mad(compressed(Forward[3], Channels)), Len(block))
          IN  clean = waverec(<<Forward[1], threshold(Forward[2], t, Channels),
                                threshold(Forward[3], t, Channels)>>, Channels)

C10_Witness ==
    /\ pc = "write"
    /\ blockNo >= 2
    /\ thresh > 0
    /\ coefficients[3] /= Forward[3]
    /\ \E i \in 1..Len(coefficients[1]) : coefficients[1][i] /= 0
                                          /\ Abs(coefficients[1][i]) <= thresh

\* the last call was generateNoiseProfileTo
ProfileToCalled == result.call = "generateNoiseProfileTo"

\* C7 (as stated): a missing sample fails with a not-found error, an unreadable
\* sample or an unwritable output with an IOError (OSError) carrying the cause,
\* the kind being the one of the underlying failure; a failing call writes nothing.
C7_IOErrorKinds ==
    ProfileToCalled =>
       LET b == result.before
       IN  /\ ~b[result.noiseFile].exists => result.error = "FileNotFoundError"
           /\ result.error \in {"none", "FileNotFoundError", "OSError"}
           /\ result.error /= "none" => files = b

\* C7 (amended): a missing sample fails with FileNotFoundError; an unreadable
\* sample or an unwritable output fails with a RuntimeError whose cause is the
\* underlying libsndfile error; a failing call leaves every file as it was.
C7_ErrorKinds ==
    ProfileToCalled =>
       LET b == result.before
           n == result.noiseFile
           o == result.outputFile
       IN  /\ ~b[n].exists => result.error = "FileNotFoundError" /\ result.cause = "none"
           /\ b[n].exists /\ ~b[n].readable =>
                 result.error = "RuntimeError" /\ result.cause = "LibsndfileError"
           /\ b[n].exists /\ b[n].readable /\ ~b[o].writable =>
                 result.error = "RuntimeError" /\ result.cause = "LibsndfileError"
           /\ b[n].exists /\ b[n].readable /\ b[o].writable => result.error = "none"
           /\ result.error /= "none" => files = b

C7_Witness ==
    /\ ProfileToCalled
    /\ calls = 2
    /\ result.before[result.noiseFile].exists
    /\ ~result.before[result.noiseFile].readable
    /\ result.error = "RuntimeError"

\* C8 (as stated): a successful generateNoiseProfileTo writes the predicted
\* waveform to outputFile at the source's rate and leaves noiseFile unchanged,
\* whatever the two paths are.
C8_SourceUnchanged ==
    ProfileToCalled /\ result.error = "none" =>
       LET b == result.before
       IN  /\ files[result.outputFile].data = getNoiseDataPredicted(b[result.noiseFile].data)
           /\ files[result.outputFile].rate = b[result.noiseFile].rate
           /\ files[result.noiseFile] = b[result.noiseFile]

\* C8 (amended): a successful generateNoiseProfileTo writes the predicted waveform
\* to outputFile at the source's rate, and leaves noiseFile unchanged whenever
\* outputFile is another path; the legacy generateNoiseProfile overwrites noiseFile.
C8_SourceUnchangedIfDistinct ==
    /\ ProfileToCalled /\ result.error = "none" =>
          LET b == result.before
          IN  /\ files[result.outputFile].exists
              /\ files[result.outputFile].data = getNoiseDataPredicted(b[result.noiseFile].data)
              /\ files[result.outputFile].rate = b[result.noiseFile].rate
              /\ result.outputFile /= result.noiseFile =>
                    files[result.noiseFile] = b[result.noiseFile]
              /\ \A q \in Paths : q /= result.outputFile => files[q] = b[q]
    /\ result.call = "generateNoiseProfile" /\ result.error = "none" =>
          files[result.noiseFile].data = getNoiseDataPredicted(result.before[result.noiseFile].data)

C8_Witness ==
    /\ ProfileToCalled
    /\ result.error = "none"
    /\ result.outputFile /= result.noiseFile
    /\ result.before[result.outputFile].exists
    /\ files[result.outputFile].data /= result.before[result.outputFile].data

====
